---- MODULE Spec2Model ----
(***************************************************************************)
(* Requirement / design comparator (src/hi.py).                            *)
(*                                                                         *)
(* Two pure functions are modelled:                                        *)
(*   semantic_match(reqs, design, threshold)   -- specification SpecMatch  *)
(*   parse_document(file)                      -- specification SpecParse  *)
(*                                                                         *)
(* Texts handed to semantic_match are sequences of whitespace-separated    *)
(* raw words (the empty sequence is the empty or whitespace-only string).  *)
(* Similarities are kept as exact rationals; the idf logarithm is taken    *)
(* from a fixed-point table.                                               *)
(***************************************************************************)
EXTENDS Integers, Sequences, FiniteSets, TLC

VARIABLES
    reqs,       \* semantic_match: argument reqs
    design,     \* semantic_match: argument design
    fpRound,    \* error of the double-precision cosine for this input, in ulps
    threshold,  \* semantic_match: argument threshold, in tenths
    result,     \* semantic_match: what the call produced
    blob,       \* parse_document: the uploaded file
    pc,         \* parse_document: position in the function
    ran,        \* parse_document: the format stages executed so far, in order
    items,      \* parse_document: the returned list
    source      \* parse_document: the stage whose return statement ran

matchVars == <<reqs, design, fpRound, threshold, result>>
parseVars == <<blob, pc, ran, items, source>>
vars == <<reqs, design, fpRound, threshold, result, blob, pc, ran, items, source>>

Range(s) == {s[i] : i \in DOMAIN s}

SeqsUpTo(S, n) == UNION {[1..k -> S] : k \in 0..n}

(***************************************************************************)
(* Bounds of the model.                                                    *)
(***************************************************************************)
MaxReqs == 2
MaxDesign == 2
MaxNodes == 4
MaxLines == 2

(***************************************************************************)
(* semantic_match                                                          *)
(***************************************************************************)

\* threshold=0.3, in tenths
DefaultThreshold == 3

\* The thresholds tried, in tenths: the ends of the configurable range [0,1],
\* the default, and one value between the default and 1.
Thresholds == {0, DefaultThreshold, 5, 10}

\* Raw words the texts are made of.
StopWords == {"the", "of"}
ShortTokens == {"x"}

Texts ==
    { <<>>,
      <<"The", "of">>,
      <<"User", "login", "page">>,
      <<"login", "login", "x">> }

\* preprocessing: str.lower
Lower(w) == CASE w = "The" -> "the" [] w = "User" -> "user" [] OTHER -> w

\* token_pattern (?u)\b\w\w+\b keeps words of two or more characters
IsToken(w) == w \notin ShortTokens

IsContentWord(w) == IsToken(w) /\ w \notin StopWords

\* The analyzer of TfidfVectorizer(stop_words='english'): lowercase, tokenize,
\* drop stop words.
Analyze(text) == SelectSeq([i \in DOMAIN text |-> Lower(text[i])], IsContentWord)

\* vocabulary_ learned by fit_transform over the whole corpus
Vocabulary(corpus) == UNION {Range(Analyze(corpus[i])) : i \in DOMAIN corpus}

\* term count of one analysed document
Tf(doc, term) == Cardinality({i \in DOMAIN doc : doc[i] = term})

\* document frequency over the analysed corpus
Df(docs, term) == Cardinality({i \in DOMAIN docs : term \in Range(docs[i])})

\* 1000 * ln(k), k = 1..10
LnMilli == <<0, 693, 1099, 1386, 1609, 1792, 1946, 2079, 2197, 2303>>

\* smooth_idf: idf = ln((1 + n) / (1 + df)) + 1, in tenths, rounded
Idf(n, df) == (LnMilli[1 + n] - LnMilli[1 + df] + 1000 + 50) \div 100

\* X = vectorizer.fit_transform(corpus): one row per text, one column per
\* vocabulary term, entry tf * idf.  The l2 normalisation of each row is left
\* out: the cosine divides by the norms again.
FitTransform(corpus) ==
    LET docs == [i \in DOMAIN corpus |-> Analyze(corpus[i])]
        vocab == UNION {Range(docs[i]) : i \in DOMAIN docs}
        idf == [t \in vocab |-> Idf(Len(corpus), Df(docs, t))]
    IN [i \in DOMAIN corpus |-> [t \in vocab |-> Tf(docs[i], t) * idf[t]]]

RECURSIVE SumOver(_, _, _)
SumOver(terms, u, v) ==
    IF terms = {} THEN 0
    ELSE LET t == CHOOSE x \in terms : TRUE
         IN u[t] * v[t] + SumOver(terms \ {t}, u, v)

Dot(u, v) == SumOver(DOMAIN u, u, v)

\* cosine_similarity of two rows, as the exact rational n/d of its square
\* (the cosine of two tf-idf rows is never negative).  A zero row, or two rows
\* without a common term, give exactly 0.
CosineSimilarity(u, v) ==
    LET uv == Dot(u, v)
    IN IF uv = 0 THEN [n |-> 0, d |-> 1]
       ELSE [n |-> uv * uv, d |-> Dot(u, u) * Dot(v, v)]

\* n1/d1 < n2/d2 for naturals with d1, d2 > 0, by continued fractions (no
\* cross product, which would overflow TLC's 32-bit integers)
RECURSIVE RatLess(_, _, _, _)
RatLess(n1, d1, n2, d2) ==
    LET q1 == n1 \div d1
        q2 == n2 \div d2
        r1 == n1 % d1
        r2 == n2 % d2
    IN IF q1 # q2 THEN q1 < q2
       ELSE IF r2 = 0 THEN FALSE
       ELSE IF r1 = 0 THEN TRUE
       ELSE RatLess(d2, r2, d1, r1)

SimLess(s1, s2) == RatLess(s1.n, s1.d, s2.n, s2.d)

\* Mutant of MaxSim: min(similarity_scores) instead of max.
MinSim(req_vec, design_vecs) ==
    LET sims == {CosineSimilarity(req_vec, design_vecs[j]) : j \in DOMAIN design_vecs}
    IN CHOOSE s \in sims : \A o \in sims : ~SimLess(o, s)

\* max(similarity_scores) of one requirement row over the design rows
MaxSim(req_vec, design_vecs) ==
    LET sims == {CosineSimilarity(req_vec, design_vecs[j]) : j \in DOMAIN design_vecs}
    IN CHOOSE s \in sims : \A o \in sims : ~SimLess(s, o)

\* max_sim >= threshold.  An exact 0.0 is compared as it is; any other value
\* carries the rounding of the double arithmetic, which decides the comparison
\* only when the exact value sits on the threshold.
SimAtLeast(sim, t, fp) ==
    IF sim.n = 0 THEN 0 >= t
    ELSE IF RatLess(sim.n, sim.d, t * t, 100) THEN FALSE
    ELSE IF RatLess(t * t, 100, sim.n, sim.d) THEN TRUE
    ELSE fp >= 0

Present(req) == [requirement |-> req, coverage |-> "Present", issue |-> ""]
Missing(req) == [requirement |-> req, coverage |-> "Missing",
                 issue |-> "Requirement not found in design"]

\* Mutant of Classify: max_sim > threshold, the boundary excluded.
ClassifyStrict(req, sim, t, fp) ==
    IF SimAtLeast(sim, t, fp) /\ sim.n # 0 /\ RatLess(t * t, 100, sim.n, sim.d)
    THEN Present(req) ELSE Missing(req)

\* Mutant of Classify: the comparison the wrong way round, max_sim <= threshold.
ClassifyInverted(req, sim, t, fp) ==
    IF SimAtLeast(sim, t, fp) /\ sim.n # 0 /\ RatLess(t * t, 100, sim.n, sim.d)
    THEN Missing(req) ELSE Present(req)

\* the if/else of the loop body and the appended dict
Classify(req, sim, t, fp) ==
    IF SimAtLeast(sim, t, fp) THEN Present(req) ELSE Missing(req)

\* Mutant of Feedback: the record is appended in the Present branch only.
FeedbackPresentOnly(R, D, t, fp) ==
    LET X == FitTransform(R \o D)
        req_vecs == [i \in DOMAIN R |-> X[i]]
        design_vecs == [j \in DOMAIN D |-> X[Len(R) + j]]
    IN SelectSeq([i \in DOMAIN R |->
                     Classify(R[i], MaxSim(req_vecs[i], design_vecs), t, fp)],
                 LAMBDA r : r.coverage = "Present")

\* the loop over the requirement rows, design not empty
Feedback(R, D, t, fp) ==
    LET X == FitTransform(R \o D)
        req_vecs == [i \in DOMAIN R |-> X[i]]
        design_vecs == [j \in DOMAIN D |-> X[Len(R) + j]]
    IN [i \in DOMAIN R |-> Classify(R[i], MaxSim(req_vecs[i], design_vecs), t, fp)]

Returned(report) == [kind |-> "returned", report |-> report]
Raised(exc) == [kind |-> exc, report |-> <<>>]
NotCalled == [kind |-> "none", report |-> <<>>]

\* semantic_match(reqs, design, threshold)
SemanticMatch(R, D, t, fp) ==
    IF Vocabulary(R \o D) = {}
    THEN Raised("ValueError")            \* fit_transform: empty vocabulary
    ELSE IF R = <<>> THEN Returned(<<>>) \* no row, the loop body never runs
    ELSE IF D = <<>>
    THEN Raised("AttributeError")        \* similarity_scores = [] has no .size
    ELSE Returned(Feedback(R, D, t, fp))

(***************************************************************************)
(* parse_document                                                          *)
(*                                                                         *)
(* A parsed document is a tree of nodes: a scalar (str, int, bool, null)   *)
(* with its literal, or a map / seq with its children in iteration order;  *)
(* a map also lists its keys.  A text is a sequence of lines, a line the   *)
(* sequence of its sentences (a blank line has none).  An item is a        *)
(* sequence of text pieces, to be read concatenated.                       *)
(***************************************************************************)

KeyNames == <<"a", "b", "c", "d", "e", "f">>

Scalar(tag, lit) == [tag |-> tag, lit |-> lit, keys |-> <<>>, kids |-> <<>>]
Map(kids) == [tag |-> "map", lit |-> "", keys |-> SubSeq(KeyNames, 1, Len(kids)), kids |-> kids]
List(kids) == [tag |-> "seq", lit |-> "", keys |-> <<>>, kids |-> kids]

Null == Scalar("null", "null")
Scalars == {Scalar("str", "req one"), Scalar("int", "42"), Scalar("bool", "true"), Null}

\* isinstance(d, dict), isinstance(d, list)
IsDict(d) == d.tag = "map"
IsList(d) == d.tag = "seq"

\* The trees of exactly n nodes, and the sequences of trees of m nodes in all.
RECURSIVE TreesOfSize(_), ForestsOfSize(_)
TreesOfSize(n) ==
    IF n = 1 THEN Scalars \cup {Map(<<>>), List(<<>>)}
    ELSE {Map(f) : f \in ForestsOfSize(n - 1)} \cup {List(f) : f \in ForestsOfSize(n - 1)}
ForestsOfSize(m) ==
    IF m = 0 THEN {<<>>}
    ELSE UNION {{<<t>> \o f : t \in TreesOfSize(k), f \in ForestsOfSize(m - k)} : k \in 1..m}

Containers == {v \in UNION {TreesOfSize(n) : n \in 1..MaxNodes} : IsDict(v) \/ IsList(v)}

Lines == {<<>>, <<"First sentence.">>, <<"First sentence.", "Second sentence.">>}
AllTexts == SeqsUpTo(Lines, MaxLines)

\* line.strip() is empty
IsBlankLine(line) == line = <<>>
IsBlank(text) == \A i \in DOMAIN text : IsBlankLine(text[i])
BlankTexts == {t \in AllTexts : IsBlank(t)}
ProseTexts == AllTexts \ BlankTexts

\* The raw text of a document that holds a map or a sequence, on one line or
\* on two.
SourceTexts == {<<<<"(markup)">>>>, <<<<"(markup)">>, <<"(markup)">>>>}

\* The raw text of a JSON scalar document: the literal, on one line.
LiteralText(v) == <<<<IF v.tag = "str" THEN "\"req one\"" ELSE v.lit>>>>

\* What YAML makes of prose it accepts: one plain scalar string.
ProseScalar == Scalar("str", "(prose)")

\* What json.loads / yaml.safe_load make of the content: a value, or the
\* format error (JSONDecodeError, YAMLError).
Parsed(v) == [ok |-> TRUE, value |-> v]
FormatError == [ok |-> FALSE, value |-> Null]

Upload(decodable, json, yaml, text) ==
    [decodable |-> decodable, json |-> json, yaml |-> yaml, text |-> text]

JsonOf(v, isJson) == IF isJson THEN Parsed(v) ELSE FormatError

\* The files that can be uploaded: bytes that are no UTF-8; a map or a
\* sequence written as JSON (which YAML reads as the same value) or as YAML
\* only; a JSON scalar; prose that YAML accepts as one scalar; the empty or
\* whitespace-only content, which is no JSON and is the YAML null; prose that
\* neither parser accepts.
Blobs ==
    {Upload(FALSE, FormatError, FormatError, <<>>)}
    \cup {Upload(TRUE, JsonOf(v, isJson), Parsed(v), t) :
            v \in Containers, isJson \in BOOLEAN, t \in SourceTexts}
    \cup {Upload(TRUE, Parsed(v), Parsed(v), LiteralText(v)) : v \in Scalars}
    \cup {Upload(TRUE, FormatError, Parsed(ProseScalar), t) : t \in ProseTexts}
    \cup {Upload(TRUE, FormatError, Parsed(Null), t) : t \in BlankTexts}
    \cup {Upload(TRUE, FormatError, FormatError, t) : t \in ProseTexts}

NoBlob == Upload(TRUE, FormatError, FormatError, <<>>)

RECURSIVE JoinPieces(_, _)
JoinPieces(parts, sep) ==
    IF parts = <<>> THEN <<>>
    ELSE IF Len(parts) = 1 THEN Head(parts)
    ELSE Head(parts) \o <<sep>> \o JoinPieces(Tail(parts), sep)

\* repr(x), which str() of a list or of a dict applies to the elements
RECURSIVE Repr(_), ReprAll(_), ReprEntries(_, _)
Repr(d) ==
    CASE d.tag = "str" -> <<"'", d.lit, "'">>
      [] d.tag = "int" -> <<d.lit>>
      [] d.tag = "bool" -> <<IF d.lit = "true" THEN "True" ELSE "False">>
      [] d.tag = "null" -> <<"None">>
      [] d.tag = "seq" -> <<"[">> \o JoinPieces(ReprAll(d.kids), ", ") \o <<"]">>
      [] d.tag = "map" -> <<"{">> \o JoinPieces(ReprEntries(d.keys, d.kids), ", ") \o <<"}">>
ReprAll(ks) == IF ks = <<>> THEN <<>> ELSE <<Repr(Head(ks))>> \o ReprAll(Tail(ks))
ReprEntries(keys, ks) ==
    IF ks = <<>> THEN <<>>
    ELSE <<(<<"'", Head(keys), "'", ": ">> \o Repr(Head(ks)))>> \o ReprEntries(Tail(keys), Tail(ks))

\* str(d): a string is itself, every other value is written as repr writes it
Str(d) == IF d.tag = "str" THEN <<d.lit>> ELSE Repr(d)

\* Mutant of Recurse: the elements of a nested list are stringified, not
\* descended into (the top-level list rule applied at depth).
RECURSIVE RecurseShallow(_), RecurseShallowAll(_), StrAll(_)
RecurseShallow(d) ==
    IF IsDict(d) THEN RecurseShallowAll(d.kids)
    ELSE IF IsList(d) THEN StrAll(d.kids)
    ELSE <<Str(d)>>
RecurseShallowAll(ks) ==
    IF ks = <<>> THEN <<>> ELSE RecurseShallow(Head(ks)) \o RecurseShallowAll(Tail(ks))
StrAll(ks) == IF ks = <<>> THEN <<>> ELSE <<Str(Head(ks))>> \o StrAll(Tail(ks))

\* recurse(d): the values of a dict and the elements of a list in iteration
\* order, str(d) appended for anything else.  Returns what it appends.
RECURSIVE Recurse(_), RecurseAll(_)
Recurse(d) ==
    IF IsDict(d) THEN RecurseAll(d.kids)
    ELSE IF IsList(d) THEN RecurseAll(d.kids)
    ELSE <<Str(d)>>
RecurseAll(ks) ==
    IF ks = <<>> THEN <<>> ELSE Recurse(Head(ks)) \o RecurseAll(Tail(ks))

\* Mutant of ListItems: only the elements that are strings are kept.
ListItemsStringsOnly(data) ==
    SelectSeq([i \in DOMAIN data.kids |-> Str(data.kids[i])],
              LAMBDA it : \E k \in DOMAIN data.kids :
                              data.kids[k].tag = "str" /\ it = Str(data.kids[k]))

\* [str(i) for i in data]
ListItems(data) == [i \in DOMAIN data.kids |-> Str(data.kids[i])]

\* The body of a try block on what the parser gave: the returned list, or no
\* return (a format error, or data that is neither a dict nor a list).
Returns(its) == [returned |-> TRUE, items |-> its]
FallsThrough == [returned |-> FALSE, items |-> <<>>]

\* Mutant of Stage: any document the parser accepts is returned from,
\* a scalar as its one item.
StageAnySuccess(parse) ==
    IF ~parse.ok THEN FallsThrough
    ELSE IF IsDict(parse.value) THEN Returns(Recurse(parse.value))
    ELSE IF IsList(parse.value) THEN Returns(ListItems(parse.value))
    ELSE Returns(<<Str(parse.value)>>)

Stage(parse) ==
    IF ~parse.ok THEN FallsThrough
    ELSE IF IsDict(parse.value) THEN Returns(Recurse(parse.value))
    ELSE IF IsList(parse.value) THEN Returns(ListItems(parse.value))
    ELSE FallsThrough

\* lines = [line.strip() for line in content.split('\n') if line.strip()],
\* each line as one item: its sentences with the spaces between them
StrippedLines(text) ==
    LET kept == SelectSeq(text, LAMBDA line : ~IsBlankLine(line))
    IN [i \in DOMAIN kept |-> JoinPieces([k \in DOMAIN kept[i] |-> <<kept[i][k]>>], " ")]

\* [sent.text.strip() for sent in nlp(content).sents if sent.text.strip()]
RECURSIVE Sentences(_)
Sentences(text) ==
    IF text = <<>> THEN <<>>
    ELSE [k \in DOMAIN Head(text) |-> <<Head(text)[k]>>] \o Sentences(Tail(text))

InitParse ==
    /\ blob \in Blobs
    /\ pc = "decode"
    /\ ran = <<>>
    /\ items = <<>>
    /\ source = "none"
    /\ reqs = <<>>
    /\ design = <<>>
    /\ fpRound = 0
    /\ threshold = DefaultThreshold
    /\ result = NotCalled

\* content = file.read().decode("utf-8")
Decode ==
    /\ pc = "decode"
    /\ pc' = IF blob.decodable THEN "json" ELSE "raised"
    /\ UNCHANGED <<blob, ran, items, source>>
    /\ UNCHANGED matchVars

\* try: json.loads ... except json.JSONDecodeError: pass
TryJson ==
    /\ pc = "json"
    /\ ran' = Append(ran, "json")
    /\ LET out == Stage(blob.json)
       IN IF out.returned
          THEN items' = out.items /\ source' = "json" /\ pc' = "done"
          ELSE pc' = "yaml" /\ UNCHANGED <<items, source>>
    /\ UNCHANGED blob
    /\ UNCHANGED matchVars

\* try: yaml.safe_load ... except yaml.YAMLError: pass
TryYaml ==
    /\ pc = "yaml"
    /\ ran' = Append(ran, "yaml")
    /\ LET out == Stage(blob.yaml)
       IN IF out.returned
          THEN items' = out.items /\ source' = "yaml" /\ pc' = "done"
          ELSE pc' = "fallback" /\ UNCHANGED <<items, source>>
    /\ UNCHANGED blob
    /\ UNCHANGED matchVars

\* the plain-text fallback
Fallback ==
    /\ pc = "fallback"
    /\ ran' = Append(ran, "fallback")
    /\ items' = IF Len(StrippedLines(blob.text)) > 1
                THEN StrippedLines(blob.text)
                ELSE Sentences(blob.text)
    /\ source' = "fallback"
    /\ pc' = "done"
    /\ UNCHANGED blob
    /\ UNCHANGED matchVars

NextParse == Decode \/ TryJson \/ TryYaml \/ Fallback


(***************************************************************************)
(* The two specifications.                                                 *)
(***************************************************************************)

InitMatch ==
    /\ reqs \in SeqsUpTo(Texts, MaxReqs)
    /\ design \in SeqsUpTo(Texts, MaxDesign)
    /\ fpRound \in {-1, 0}
    /\ threshold = DefaultThreshold
    /\ result = NotCalled
    /\ blob = NoBlob
    /\ pc = "idle"
    /\ ran = <<>>
    /\ items = <<>>
    /\ source = "none"

Match(t) ==
    /\ result.kind = "none"
    /\ threshold' = t
    /\ result' = SemanticMatch(reqs, design, t, fpRound)
    /\ UNCHANGED <<reqs, design, fpRound>>
    /\ UNCHANGED parseVars

NextMatch == \E t \in Thresholds : Match(t)

SpecMatch == InitMatch /\ [][NextMatch]_vars

SpecParse == InitParse /\ [][NextParse]_vars

(***************************************************************************)
(* Properties of semantic_match, checked under SpecMatch.                  *)
(***************************************************************************)

Called == result.kind # "none"
DidReturn == result.kind = "returned"

\* A text whose tf-idf row is the zero vector: empty, whitespace-only, or made
\* of stop words and one-character tokens only.
ZeroVector(text) == Analyze(text) = <<>>

\* The similarity of requirement i and design item j as the call computes it.
SimOf(i, j) ==
    LET X == FitTransform(reqs \o design)
    IN CosineSimilarity(X[i], X[Len(reqs) + j])

AllCoverage(c) == \A i \in DOMAIN result.report : result.report[i].coverage = c

\* C1: for a non-empty reqs and an empty design, the call with the default
\* threshold returns a report with one record per requirement, each Missing.
C1_EmptyDesignAllMissing ==
    (Called /\ reqs # <<>> /\ design = <<>> /\ threshold = DefaultThreshold)
        => (DidReturn /\ Len(result.report) = Len(reqs) /\ AllCoverage("Missing"))

\* C2: a returned report has exactly len(reqs) records and its i-th record
\* carries the unmodified text reqs[i].
C2_ReportAligned ==
    DidReturn =>
        /\ Len(result.report) = Len(reqs)
        /\ \A i \in DOMAIN reqs : result.report[i].requirement = reqs[i]

\* C2 witness: a returned report for two different requirements, the first of
\* which the analyzer would change (case, a one-character token).
C2_Witness ==
    /\ DidReturn
    /\ Len(reqs) = 2
    /\ reqs[1] # reqs[2]
    /\ Analyze(reqs[1]) # reqs[1]
    /\ result.report[2].coverage = "Missing"

\* C3: with an empty reqs the call returns the empty report, whatever the
\* design, and never raises.
C3_EmptyReqsEmptyReport ==
    (Called /\ reqs = <<>>) => result = Returned(<<>>)

\* C4: in every record of a returned report, coverage is Present exactly when
\* some design item (hence the maximum) has similarity >= threshold, Missing
\* otherwise, and issue is the fixed message exactly for Missing, empty
\* exactly for Present.
C4_ClassificationRule ==
    DidReturn =>
        \A i \in DOMAIN result.report :
            LET r == result.report[i]
                reached == \E j \in DOMAIN design : SimAtLeast(SimOf(i, j), threshold, fpRound)
            IN /\ r.coverage \in {"Present", "Missing"}
               /\ (r.coverage = "Present") <=> reached
               /\ (r.issue = "Requirement not found in design") <=> (r.coverage = "Missing")
               /\ (r.issue = "") <=> (r.coverage = "Present")

\* C4 witness: the boundary case, a maximum similarity of exactly 0 against a
\* threshold of 0 is Present, next to a Missing record under a higher one.
C4_Witness ==
    /\ DidReturn
    /\ threshold = 0
    /\ \E i \in DOMAIN result.report :
          /\ \A j \in DOMAIN design : SimOf(i, j).n = 0
          /\ result.report[i].coverage = "Present"
          /\ result.report[i].issue = ""
          /\ SemanticMatch(reqs, design, DefaultThreshold, fpRound).report[i].coverage
                = "Missing"

\* C5: a zero-vector requirement is classified Missing, without an exception,
\* for every design and every threshold of [0,1].
C5_ZeroVectorMissing ==
    (Called /\ \E i \in DOMAIN reqs : ZeroVector(reqs[i]))
        => /\ DidReturn
           /\ \A i \in DOMAIN reqs :
                 ZeroVector(reqs[i]) => result.report[i].coverage = "Missing"

\* C6: for the same reqs and design and thresholds t1 <= t2, every record that
\* is Present under t2 is Present under t1 (and so every record Missing under
\* t1 is Missing under t2).
C6_ThresholdMonotone ==
    DidReturn =>
        \A t2 \in Thresholds :
            LET other == SemanticMatch(reqs, design, t2, fpRound)
            IN /\ other.kind = "returned"
               /\ Len(other.report) = Len(result.report)
               /\ \A i \in DOMAIN result.report :
                     /\ (threshold <= t2 /\ other.report[i].coverage = "Present")
                            => result.report[i].coverage = "Present"
                     /\ (t2 <= threshold /\ other.report[i].coverage = "Missing")
                            => result.report[i].coverage = "Missing"

\* C6 witness: a record that is Present under the threshold of the call and
\* Missing under a higher one.
C6_Witness ==
    /\ DidReturn
    /\ \E t2 \in Thresholds, i \in DOMAIN result.report :
          /\ threshold > 0
          /\ t2 > threshold
          /\ result.report[i].coverage = "Present"
          /\ SemanticMatch(reqs, design, t2, fpRound).report[i].coverage = "Missing"

\* C7 as stated, the cosine taken as computed without rounding error: for a
\* non-empty X with at least one non-stop-word somewhere in it,
\* semantic_match(X, X, t) with t <= 1 classifies every record Present.
C7_SelfCoverageAsStated ==
    (Called /\ reqs # <<>> /\ design = reqs /\ threshold <= 10 /\ fpRound = 0
        /\ \E i \in DOMAIN reqs : ~ZeroVector(reqs[i]))
        => (DidReturn /\ AllCoverage("Present"))

\* C7 amended: for a non-empty X in which every item has a non-stop-word
\* token, semantic_match(X, X, t) with t below 1 by more than the rounding of
\* the cosine returns a report whose records are all Present.
C7_SelfCoverage ==
    (Called /\ reqs # <<>> /\ design = reqs /\ threshold < 10
        /\ \A i \in DOMAIN reqs : ~ZeroVector(reqs[i]))
        => (DidReturn /\ Len(result.report) = Len(reqs) /\ AllCoverage("Present"))

\* C7 witness: two different items, each matched by its own copy only above
\* the threshold.
C7_Witness ==
    /\ DidReturn
    /\ design = reqs
    /\ Len(reqs) = 2
    /\ reqs[1] # reqs[2]
    /\ \A i \in DOMAIN reqs : ~ZeroVector(reqs[i])
    /\ threshold = 5
    /\ ~SimAtLeast(SimOf(1, 2), threshold, fpRound)
    /\ AllCoverage("Present")

(***************************************************************************)
(* Properties of parse_document, checked under SpecParse.                  *)
(***************************************************************************)

Done == pc = "done"

\* The document the returning stage parsed.
Root == IF source = "json" THEN blob.json.value ELSE blob.yaml.value

FromStructured == source \in {"json", "yaml"}

\* The paths (child positions from the root) of the scalar leaves of a tree.
RECURSIVE LeafPaths(_)
LeafPaths(v) ==
    IF v.tag \in {"map", "seq"}
    THEN UNION {{<<i>> \o q : q \in LeafPaths(v.kids[i])} : i \in DOMAIN v.kids}
    ELSE {<<>>}

RECURSIVE NodeAt(_, _)
NodeAt(v, path) == IF path = <<>> THEN v ELSE NodeAt(v.kids[Head(path)], Tail(path))

\* Depth-first order of two leaf paths: the smaller position at the first
\* place where they part.
PathBefore(a, b) ==
    \E k \in (DOMAIN a) \cap (DOMAIN b) :
        /\ \A m \in 1..(k - 1) : a[m] = b[m]
        /\ a[k] < b[k]

Rank(v, path) == 1 + Cardinality({q \in LeafPaths(v) : PathBefore(q, path)})

\* A map without a scalar leaf anywhere below it, or an empty sequence.
LeafFree(v) ==
    \/ v.tag = "map" /\ LeafPaths(v) = {}
    \/ v.tag = "seq" /\ v.kids = <<>>

\* The parser accepted the text and gave a map or a sequence.
Yields(parse) == parse.ok /\ parse.value.tag \in {"map", "seq"}

\* C8 as stated: the returned list is not empty unless the content is empty
\* or whitespace-only.
C8_NonEmptyAsStated ==
    (Done /\ ~IsBlank(blob.text)) => items # <<>>

\* C8 amended: the returned list is empty exactly when the content is empty
\* or whitespace-only, or the returning JSON/YAML stage parsed an empty
\* sequence or a map without any scalar leaf.
C8_EmptyOnlyWhen ==
    Done =>
        ((items = <<>>) <=> (IsBlank(blob.text) \/ (FromStructured /\ LeafFree(Root))))

\* C8 witness: a document that is not blank, a map whose values are empty
\* containers only, parsed to zero items.
C8_Witness ==
    /\ Done
    /\ ~IsBlank(blob.text)
    /\ source = "json"
    /\ Root.tag = "map"
    /\ Root.kids # <<>>
    /\ items = <<>>

\* C9 as stated: a later stage runs only when every earlier stage raised a
\* format error, and a document the JSON or YAML parser accepts (a scalar
\* too) gets its result from that stage.
C9_CascadeAsStated ==
    /\ "yaml" \in Range(ran) => ~blob.json.ok
    /\ "fallback" \in Range(ran) => (~blob.json.ok /\ ~blob.yaml.ok)
    /\ (Done /\ blob.json.ok) => source = "json"
    /\ (Done /\ ~blob.json.ok /\ blob.yaml.ok) => source = "yaml"

\* C9 amended: the stages run in the order JSON, YAML, fallback; a later stage
\* runs only when every earlier stage raised a format error or parsed a root
\* that is neither a map nor a sequence; the result comes from the first
\* stage that parsed a map or a sequence, from the fallback if none did, and
\* no stage runs after the one that returned.
C9_Cascade ==
    /\ \E n \in 0..3 : ran = SubSeq(<<"json", "yaml", "fallback">>, 1, n)
    /\ "yaml" \in Range(ran) => ~Yields(blob.json)
    /\ "fallback" \in Range(ran) => (~Yields(blob.json) /\ ~Yields(blob.yaml))
    /\ Done =>
          /\ source = (IF Yields(blob.json) THEN "json"
                       ELSE IF Yields(blob.yaml) THEN "yaml" ELSE "fallback")
          /\ ran[Len(ran)] = source

\* C9 witness: plain prose on two lines, which YAML accepts as one scalar,
\* gets its two items from the fallback, run after both parsers.
C9_Witness ==
    /\ Done
    /\ ~blob.json.ok
    /\ blob.yaml.ok
    /\ blob.yaml.value = ProseScalar
    /\ ran = <<"json", "yaml", "fallback">>
    /\ source = "fallback"
    /\ Len(items) = 2

\* C10: for a map root the returned list is exactly the stringified scalar
\* leaves of the tree, one item per leaf, in depth-first order; keys and
\* empty containers give no item.
C10_MapLeaves ==
    (Done /\ FromStructured /\ Root.tag = "map") =>
        /\ Len(items) = Cardinality(LeafPaths(Root))
        /\ \A path \in LeafPaths(Root) :
              items[Rank(Root, path)] = Str(NodeAt(Root, path))

\* C10 witness: {"a": "req one", "b": [42]} gives ["req one", "42"].
C10_Witness ==
    /\ Done
    /\ source = "json"
    /\ Root = Map(<<Scalar("str", "req one"), List(<<Scalar("int", "42")>>)>>)
    /\ items = << <<"req one">>, <<"42">> >>

====
